---- MODULE Spec2Model ----
(***************************************************************************)
(* Exact and approximate pattern search of AAD_Subproblem_Solvers:         *)
(* Boyer-Moore, KMP and the Levenshtein family (src/algorithms).           *)
(*                                                                         *)
(* A Python str or list is a function on 0..len-1, so that every index of  *)
(* the code keeps its value; a list that is only appended to and returned  *)
(* (matches, occurrences) is a sequence.  One call of one function runs at *)
(* a time: its locals are the record `frame`, and one action is one        *)
(* iteration of the function's outer loop.                                 *)
(***************************************************************************)
EXTENDS Integers, Sequences, FiniteSets, TLC

\* ---- bounds of the inputs ----
MaxN == 5
MaxM == 3
MaxD == 2
\* two of the four bases: the searches only ever test symbols for equality
Alphabet == {"A", "C"}

Strings(k) == UNION {[0..(l - 1) -> Alphabet] : l \in 0..k}
\* the thresholds a caller may pass; no function restricts the sign
Distances == (0 - 1)..MaxD

len(x) == Cardinality(DOMAIN x)
None == "None"
max2(a, b) == IF a >= b THEN a ELSE b
min2(a, b) == IF a <= b THEN a ELSE b
min3(a, b, c) == min2(a, min2(b, c))
\* list(range(k)) as a returned list
range_list(k) == [x \in 1..k |-> x - 1]
\* [v] * k
repeat(v, k) == [x \in 0..(k - 1) |-> v]
\* s[lo:hi] with Python's clamping of the upper end
slice(s, lo, hi) == [x \in 0..(min2(hi, len(s)) - lo - 1) |-> s[lo + x]]

\* a call that has returned value v
returned(f, v) == [f EXCEPT !.pc = "done", !.ret = v]

\* ---------------------------------------------------------------------
\* kmp.py
\* ---------------------------------------------------------------------
RECURSIVE lps_loop(_, _, _, _, _)
lps_loop(pattern, length, lps, j, i) ==
  IF ~(i < length) THEN lps
  ELSE IF pattern[i] = pattern[j]
       THEN lps_loop(pattern, length, [lps EXCEPT ![i] = j + 1], j + 1, i + 1)
       ELSE IF j # 0
            THEN lps_loop(pattern, length, lps, lps[j - 1], i)
            ELSE lps_loop(pattern, length, [lps EXCEPT ![i] = 0], j, i + 1)

\* faulty variant: the scan starts at index 0
compute_lps_table_from0(pattern) ==
  lps_loop(pattern, len(pattern), repeat(0, len(pattern)), 0, 0)

compute_lps_table(pattern) ==
  lps_loop(pattern, len(pattern), repeat(0, len(pattern)), 0, 1)

\* the test of `while i < n` and the return after the loop
kmp_while(f) == IF f.i < f.n THEN f ELSE returned(f, f.occurrences)

kmp_search_enter(text, pattern) ==
  LET f0 == [pc |-> "loop", ret |-> None, n |-> len(text), m |-> len(pattern),
             lps |-> <<>>, i |-> 0, j |-> 0, occurrences |-> <<>>]
  IN IF len(pattern) = 0 THEN returned(f0, <<>>)
     ELSE IF len(pattern) > len(text) THEN returned(f0, <<>>)
     ELSE kmp_while([f0 EXCEPT !.lps = compute_lps_table(pattern)])

\* faulty variant: the end of the occurrence is recorded
kmp_record_end(i, j) == i

\* occurrences.append(i - j)
kmp_record(i, j) == i - j

kmp_search_step(text, pattern, f) ==
  LET hit == pattern[f.j] = text[f.i]
      i1 == IF hit THEN f.i + 1 ELSE f.i
      j1 == IF hit THEN f.j + 1 ELSE f.j
  IN kmp_while(
       IF j1 = f.m
       THEN [f EXCEPT !.i = i1, !.j = f.lps[j1 - 1],
                      !.occurrences = Append(@, kmp_record(i1, j1))]
       ELSE IF i1 < f.n /\ pattern[j1] # text[i1]
            THEN IF j1 # 0
                 THEN [f EXCEPT !.i = i1, !.j = f.lps[j1 - 1]]
                 ELSE [f EXCEPT !.i = i1 + 1, !.j = j1]
            ELSE [f EXCEPT !.i = i1, !.j = j1])

ckmp_while(f) ==
  IF f.i < f.n THEN f ELSE returned(f, <<f.occurrences, f.comparisons>>)

\* faulty variant: the oversize test is missing
count_comparisons_kmp_enter_nosize(text, pattern) ==
  LET f0 == [pc |-> "loop", ret |-> None, n |-> len(text), m |-> len(pattern),
             lps |-> <<>>, i |-> 0, j |-> 0, occurrences |-> <<>>,
             comparisons |-> 0]
  IN IF len(pattern) = 0
     THEN returned(f0, << <<>>, 0 >>)
     ELSE ckmp_while([f0 EXCEPT !.lps = compute_lps_table(pattern)])

count_comparisons_kmp_enter(text, pattern) ==
  LET f0 == [pc |-> "loop", ret |-> None, n |-> len(text), m |-> len(pattern),
             lps |-> <<>>, i |-> 0, j |-> 0, occurrences |-> <<>>,
             comparisons |-> 0]
  IN IF len(pattern) = 0 \/ len(pattern) > len(text)
     THEN returned(f0, << <<>>, 0 >>)
     ELSE ckmp_while([f0 EXCEPT !.lps = compute_lps_table(pattern)])

\* faulty variant: a mismatch restarts the pattern one symbol further on
ckmp_mismatch_restart(f) ==
  IF f.j # 0 THEN [f EXCEPT !.i = f.i - f.j + 1, !.j = 0]
  ELSE [f EXCEPT !.i = f.i + 1]

\* the mismatch branch of count_comparisons_kmp
ckmp_mismatch(f) ==
  IF f.j # 0 THEN [f EXCEPT !.j = f.lps[f.j - 1]]
  ELSE [f EXCEPT !.i = f.i + 1]

\* faulty variant: after an occurrence the pattern restarts at 0
count_comparisons_kmp_step_restart(text, pattern, f) ==
  LET c == [f EXCEPT !.comparisons = @ + 1]
  IN ckmp_while(
       IF pattern[f.j] = text[f.i]
       THEN IF f.j + 1 = f.m
            THEN [c EXCEPT !.i = f.i + 1, !.j = 0,
                           !.occurrences = Append(@, (f.i + 1) - (f.j + 1))]
            ELSE [c EXCEPT !.i = f.i + 1, !.j = f.j + 1]
       ELSE ckmp_mismatch(c))

count_comparisons_kmp_step(text, pattern, f) ==
  LET c == [f EXCEPT !.comparisons = @ + 1]
  IN ckmp_while(
       IF pattern[f.j] = text[f.i]
       THEN IF f.j + 1 = f.m
            THEN [c EXCEPT !.i = f.i + 1, !.j = f.lps[f.j + 1 - 1],
                           !.occurrences = Append(@, (f.i + 1) - (f.j + 1))]
            ELSE [c EXCEPT !.i = f.i + 1, !.j = f.j + 1]
       ELSE ckmp_mismatch(c))

\* ---------------------------------------------------------------------
\* boyer_moore.py
\* ---------------------------------------------------------------------
\* faulty variant: the first index of a symbol is kept
dict_set_first(d, c, i) ==
  [x \in (DOMAIN d) \cup {c} |-> IF x \in DOMAIN d THEN d[x] ELSE i]

\* bad_char[c] = i on a dict
dict_set(d, c, i) == [x \in (DOMAIN d) \cup {c} |-> IF x = c THEN i ELSE d[x]]
\* bad_char.get(c, default)
dict_get(d, c, default) == IF c \in DOMAIN d THEN d[c] ELSE default

RECURSIVE bad_char_loop(_, _, _)
bad_char_loop(pattern, bad_char, i) ==
  IF ~(i < len(pattern)) THEN bad_char
  ELSE bad_char_loop(pattern, dict_set(bad_char, pattern[i], i), i + 1)

bad_character_table(pattern) == bad_char_loop(pattern, <<>>, 0)

\* the inner while of the border computation; yields j and shift
RECURSIVE gs_inner(_, _, _, _, _, _)
gs_inner(pattern, m, i, j, shift, border) ==
  IF j <= m /\ pattern[i - 1] # pattern[j - 1]
  THEN gs_inner(pattern, m, i, border[j],
                IF shift[j - 1] = m THEN [shift EXCEPT ![j - 1] = j - i]
                ELSE shift,
                border)
  ELSE [j |-> j, shift |-> shift]

\* while i > 0; yields shift and border
RECURSIVE gs_outer(_, _, _, _, _, _)
gs_outer(pattern, m, i, j, shift, border) ==
  IF ~(i > 0) THEN [shift |-> shift, border |-> border]
  ELSE LET r == gs_inner(pattern, m, i, j, shift, border)
       IN gs_outer(pattern, m, i - 1, r.j - 1, r.shift,
                   [border EXCEPT ![i - 1] = r.j - 1])

\* faulty variant: the entries left at m are not filled from the borders
gs_fill_none(m, i, j, shift, border) == shift

\* for i in range(m): the remaining entries take the widest border
RECURSIVE gs_fill(_, _, _, _, _)
gs_fill(m, i, j, shift, border) ==
  IF ~(i < m) THEN shift
  ELSE gs_fill(m, i + 1, IF i = j THEN border[j] ELSE j,
               IF shift[i] = m THEN [shift EXCEPT ![i] = j] ELSE shift,
               border)

good_suffix_table(pattern) ==
  LET m == len(pattern)
      r == gs_outer(pattern, m, m, m + 1, repeat(m, m),
                    [repeat(0, m + 1) EXCEPT ![m] = m + 1])
  IN gs_fill(m, 0, r.border[0], r.shift, r.border)

\* while j >= 0 and pattern[j] == text[shift_amount + j]: j -= 1
RECURSIVE bm_scan(_, _, _, _)
bm_scan(text, pattern, shift_amount, j) ==
  IF j >= 0 /\ pattern[j] = text[shift_amount + j]
  THEN bm_scan(text, pattern, shift_amount, j - 1)
  ELSE j

\* faulty variant: a full match advances by the whole pattern
bm_match_shift_whole(f) == f.m

\* the advance after a full match
bm_match_shift(f) ==
  IF f.shift_amount + f.m < f.n THEN f.good_suffix[0] ELSE 1

\* faulty variant: the bad-character shift alone
bm_mismatch_shift_badchar(text, f, j) ==
  j - dict_get(f.bad_char, text[f.shift_amount + j], 0 - 1)

\* the advance after a mismatch at pattern index j
bm_mismatch_shift(text, f, j) ==
  LET bad_char_shift == j - dict_get(f.bad_char, text[f.shift_amount + j], 0 - 1)
      good_suffix_shift == f.good_suffix[j]
  IN max2(bad_char_shift, good_suffix_shift)

bm_while(f) == IF f.shift_amount <= f.n - f.m THEN f ELSE returned(f, f.matches)

boyer_moore_search_enter(text, pattern) ==
  LET f0 == [pc |-> "loop", ret |-> None, n |-> len(text), m |-> len(pattern),
             bad_char |-> <<>>, good_suffix |-> <<>>, matches |-> <<>>,
             shift_amount |-> 0, j |-> 0, advance |-> 0]
  IN IF len(pattern) = 0 THEN returned(f0, <<>>)
     ELSE IF len(pattern) > len(text) THEN returned(f0, <<>>)
     ELSE bm_while([f0 EXCEPT !.bad_char = bad_character_table(pattern),
                              !.good_suffix = good_suffix_table(pattern)])

\* one alignment: scan, then record and advance.  j and advance keep the
\* mismatch index (or -1) and the advance of the alignment just finished.
boyer_moore_search_step(text, pattern, f) ==
  LET j == bm_scan(text, pattern, f.shift_amount, f.m - 1)
  IN bm_while(
       IF j < 0
       THEN [f EXCEPT !.matches = Append(@, f.shift_amount), !.j = j,
                      !.advance = bm_match_shift(f),
                      !.shift_amount = @ + bm_match_shift(f)]
       ELSE [f EXCEPT !.j = j,
                      !.advance = bm_mismatch_shift(text, f, j),
                      !.shift_amount = @ + bm_mismatch_shift(text, f, j)])

\* while j >= 0: comparisons += 1; break on a mismatch; j -= 1
RECURSIVE cbm_scan(_, _, _, _, _)
cbm_scan(text, pattern, shift_amount, j, comparisons) ==
  IF j >= 0
  THEN IF pattern[j] # text[shift_amount + j]
       THEN [j |-> j, comparisons |-> comparisons + 1]
       ELSE cbm_scan(text, pattern, shift_amount, j - 1, comparisons + 1)
  ELSE [j |-> j, comparisons |-> comparisons]

cbm_while(f) ==
  IF f.shift_amount <= f.n - f.m THEN f
  ELSE returned(f, <<f.matches, f.comparisons>>)

count_comparisons_boyer_moore_enter(text, pattern) ==
  LET f0 == [pc |-> "loop", ret |-> None, n |-> len(text), m |-> len(pattern),
             bad_char |-> <<>>, good_suffix |-> <<>>, matches |-> <<>>,
             shift_amount |-> 0, j |-> 0, advance |-> 0, comparisons |-> 0]
  IN IF len(pattern) = 0 THEN returned(f0, << <<>>, 0 >>)
     ELSE IF len(pattern) > len(text) THEN returned(f0, << <<>>, 0 >>)
     ELSE cbm_while([f0 EXCEPT !.bad_char = bad_character_table(pattern),
                               !.good_suffix = good_suffix_table(pattern)])

count_comparisons_boyer_moore_step(text, pattern, f) ==
  LET r == cbm_scan(text, pattern, f.shift_amount, f.m - 1, f.comparisons)
      j == r.j
  IN cbm_while(
       IF j < 0
       THEN [f EXCEPT !.matches = Append(@, f.shift_amount), !.j = j,
                      !.comparisons = r.comparisons,
                      !.advance = bm_match_shift(f),
                      !.shift_amount = @ + bm_match_shift(f)]
       ELSE [f EXCEPT !.j = j, !.comparisons = r.comparisons,
                      !.advance = bm_mismatch_shift(text, f, j),
                      !.shift_amount = @ + bm_mismatch_shift(text, f, j)])

\* ---------------------------------------------------------------------
\* levenshtein.py
\* ---------------------------------------------------------------------
\* faulty variant: the insertion term is missing
dp_cell_noins(dp, a, b, i, j) ==
  LET cost == IF a[i - 1] = b[j - 1] THEN 0 ELSE 1
  IN min2(dp[i - 1][j] + 1, dp[i - 1][j - 1] + cost)

\* dp[i][j] of the full table
dp_cell(dp, a, b, i, j) ==
  LET cost == IF a[i - 1] = b[j - 1] THEN 0 ELSE 1
  IN min3(dp[i - 1][j] + 1, dp[i][j - 1] + 1, dp[i - 1][j - 1] + cost)

\* for i in range(1, n + 1): for j in range(1, m + 1)
RECURSIVE dp_fill(_, _, _, _, _, _, _)
dp_fill(a, b, n, m, dp, i, j) ==
  IF ~(i < n + 1) THEN dp
  ELSE IF ~(j < m + 1) THEN dp_fill(a, b, n, m, dp, i + 1, 1)
  ELSE dp_fill(a, b, n, m, [dp EXCEPT ![i][j] = dp_cell(dp, a, b, i, j)],
               i, j + 1)

levenshtein_distance(a, b) ==
  LET n == len(a)
      m == len(b)
      dp0 == [i \in 0..n |-> [j \in 0..m |->
                IF i = 0 THEN j ELSE IF j = 0 THEN i ELSE 0]]
  IN IF n = 0 THEN m
     ELSE IF m = 0 THEN n
     ELSE dp_fill(a, b, n, m, dp0, 1, 1)[n][m]

\* faulty variant: range(n - m) for range(n - m + 1)
lev_for_short(f) == IF f.start < f.n - f.m THEN f ELSE returned(f, f.matches)

\* `for start in range(n - m + 1)` and the return after it
lev_for(f) == IF f.start < f.n - f.m + 1 THEN f ELSE returned(f, f.matches)

\* faulty variant: range(n) for range(n + 1)
lev_empty_pattern_short(n) == range_list(n)

\* the early returns shared by the three searches
lev_empty_pattern(n) == range_list(n + 1)

levenshtein_search_enter(text, pattern, max_distance) ==
  LET n == len(text)
      m == len(pattern)
      f0 == [pc |-> "loop", ret |-> None, n |-> n, m |-> m,
             matches |-> <<>>, start |-> 0]
  IN IF m = 0 THEN returned(f0, lev_empty_pattern(n))
     ELSE IF n < m THEN returned(f0, <<>>)
     ELSE lev_for(f0)

levenshtein_search_step(text, pattern, max_distance, f) ==
  LET substring == slice(text, f.start, f.start + f.m)
      dist == levenshtein_distance(substring, pattern)
  IN lev_for([f EXCEPT !.matches = IF dist <= max_distance
                                   THEN Append(@, f.start) ELSE @,
                       !.start = @ + 1])

\* for j in range(1, m + 1) of one rolling row
RECURSIVE opt_cells(_, _, _, _, _, _, _)
opt_cells(substring, pattern, m, i, j, prev, curr) ==
  IF ~(j < m + 1) THEN curr
  ELSE LET cost == IF substring[i - 1] = pattern[j - 1] THEN 0 ELSE 1
       IN opt_cells(substring, pattern, m, i, j + 1, prev,
                    [curr EXCEPT ![j] = min3(prev[j] + 1, curr[j - 1] + 1,
                                             prev[j - 1] + cost)])

\* faulty variant: the rows are not swapped
opt_swap_none(prev, curr) == [prev |-> prev, curr |-> curr]

\* what `prev, curr = curr, prev` leaves in the two names
opt_swap(prev, curr) == [prev |-> curr, curr |-> prev]

\* for i in range(1, m + 1): curr[0] = i; the cells; the swap
RECURSIVE opt_rows(_, _, _, _, _, _)
opt_rows(substring, pattern, m, i, prev, curr) ==
  IF ~(i < m + 1) THEN [prev |-> prev, curr |-> curr]
  ELSE LET row == opt_cells(substring, pattern, m, i, 1, prev,
                            [curr EXCEPT ![0] = i])
           r == opt_swap(prev, row)
       IN opt_rows(substring, pattern, m, i + 1, r.prev, r.curr)

levenshtein_search_optimized_enter(text, pattern, max_distance) ==
  LET n == len(text)
      m == len(pattern)
      f0 == [pc |-> "loop", ret |-> None, n |-> n, m |-> m,
             matches |-> <<>>, start |-> 0, prev |-> <<>>, curr |-> <<>>]
  IN IF m = 0 THEN returned(f0, lev_empty_pattern(n))
     ELSE IF n < m THEN returned(f0, <<>>)
     ELSE lev_for(f0)

levenshtein_search_optimized_step(text, pattern, max_distance, f) ==
  LET substring == slice(text, f.start, f.start + f.m)
      r == opt_rows(substring, pattern, f.m, 1,
                    [j \in 0..f.m |-> j], repeat(0, f.m + 1))
  IN lev_for([f EXCEPT !.prev = r.prev, !.curr = r.curr,
                       !.matches = IF r.prev[f.m] <= max_distance
                                   THEN Append(@, f.start) ELSE @,
                       !.start = @ + 1])

\* the cells of one row of count_comparisons_levenshtein
RECURSIVE clev_cells(_, _, _, _, _, _, _, _, _)
clev_cells(text, pattern, start, m, i, j, prev, curr, comparisons) ==
  IF ~(j < m + 1) THEN [curr |-> curr, comparisons |-> comparisons]
  ELSE LET cost == IF text[start + i - 1] = pattern[j - 1] THEN 0 ELSE 1
       IN clev_cells(text, pattern, start, m, i, j + 1, prev,
                     [curr EXCEPT ![j] = min3(prev[j] + 1, curr[j - 1] + 1,
                                              prev[j - 1] + cost)],
                     comparisons + 1)

RECURSIVE clev_rows(_, _, _, _, _, _, _, _)
clev_rows(text, pattern, start, m, i, prev, curr, comparisons) ==
  IF ~(i < m + 1)
  THEN [prev |-> prev, curr |-> curr, comparisons |-> comparisons]
  ELSE LET row == clev_cells(text, pattern, start, m, i, 1, prev,
                             [curr EXCEPT ![0] = i], comparisons)
       IN clev_rows(text, pattern, start, m, i + 1, row.curr, prev,
                    row.comparisons)

clev_for(f) ==
  IF f.start < f.n - f.m + 1 THEN f
  ELSE returned(f, <<f.matches, f.comparisons>>)

count_comparisons_levenshtein_enter(text, pattern, max_distance) ==
  LET n == len(text)
      m == len(pattern)
      f0 == [pc |-> "loop", ret |-> None, n |-> n, m |-> m,
             matches |-> <<>>, start |-> 0, prev |-> <<>>, curr |-> <<>>,
             comparisons |-> 0]
  IN IF m = 0 THEN returned(f0, <<range_list(n + 1), 0>>)
     ELSE IF n < m THEN returned(f0, << <<>>, 0 >>)
     ELSE clev_for(f0)

count_comparisons_levenshtein_step(text, pattern, max_distance, f) ==
  LET r == clev_rows(text, pattern, f.start, f.m, 1,
                     [j \in 0..f.m |-> j], repeat(0, f.m + 1), f.comparisons)
  IN clev_for([f EXCEPT !.prev = r.prev, !.curr = r.curr,
                        !.comparisons = r.comparisons,
                        !.matches = IF r.prev[f.m] <= max_distance
                                    THEN Append(@, f.start) ELSE @,
                        !.start = @ + 1])

\* the value written outside the band
diag_sentinel(max_distance) == max_distance + 5

\* for j in range(start_j, end_j + 1): the band cells of text row i.
\* r holds curr, the DP-row indices used so far in this row (touched), the
\* cells read so far with the values they held (reads) and whether every
\* index so far was inside its list (ok).  No index of the
\* function is negative (start_j >= 1), so Python's wrap-around of negative
\* indices never applies and an index outside DOMAIN is an IndexError.
RECURSIVE diag_band(_, _, _, _, _, _, _)
diag_band(text, pattern, i, j, end_j, prev, r) ==
  IF ~(j < end_j + 1) \/ ~r.ok THEN r
  ELSE IF /\ (i - 1) \in DOMAIN text
          /\ (j - 1) \in DOMAIN pattern
          /\ {j - 1, j} \subseteq DOMAIN r.curr
          /\ {j - 1, j} \subseteq DOMAIN prev
       THEN LET cost == IF text[i - 1] = pattern[j - 1] THEN 0 ELSE 1
                ins == r.curr[j - 1] + 1
                delete == prev[j] + 1
                subst == prev[j - 1] + cost
            IN diag_band(text, pattern, i, j + 1, end_j, prev,
                 [r EXCEPT !.curr = [@ EXCEPT ![j] = min3(ins, delete, subst)],
                           !.touched = @ \cup {j - 1, j},
                           !.reads = @ \cup
                             {[row |-> "curr", index |-> j - 1,
                               value |-> r.curr[j - 1]],
                              [row |-> "prev", index |-> j, value |-> prev[j]],
                              [row |-> "prev", index |-> j - 1,
                               value |-> prev[j - 1]]}])
       ELSE [r EXCEPT !.ok = FALSE, !.touched = @ \cup {j - 1, j}]

\* for j in range(lo, hi): curr[j] = value
RECURSIVE diag_fill(_, _, _, _)
diag_fill(j, hi, value, r) ==
  IF ~(j < hi) \/ ~r.ok THEN r
  ELSE IF j \in DOMAIN r.curr
       THEN diag_fill(j + 1, hi, value,
                      [r EXCEPT !.curr = [@ EXCEPT ![j] = value],
                                !.touched = @ \cup {j}])
       ELSE [r EXCEPT !.ok = FALSE, !.touched = @ \cup {j}]

\* `for i in range(1, n + 1)` and the return after it
diag_for(f) == IF f.i < f.n + 1 THEN f ELSE returned(f, f.matches)

levenshtein_search_diagonal_enter(text, pattern, max_distance) ==
  LET n == len(text)
      m == len(pattern)
      f0 == [pc |-> "loop", ret |-> None, exc |-> None, n |-> n, m |-> m,
             matches |-> <<>>, i |-> 1, prev |-> [j \in 0..m |-> j],
             curr |-> <<>>, start_j |-> 0, end_j |-> 0, touched |-> {},
             reads |-> {}]
  IN IF m = 0 THEN returned(f0, lev_empty_pattern(n))
     ELSE IF n < m THEN returned(f0, <<>>)
     ELSE diag_for(f0)

\* one text row i: the band, the two sentinel fills, the match test
levenshtein_search_diagonal_step(text, pattern, max_distance, f) ==
  LET i == f.i
      m == f.m
      start_j == max2(1, i - max_distance)
      end_j == min2(m, i + max_distance)
      r0 == [curr |-> [repeat(0, m + 1) EXCEPT ![0] = i], touched |-> {0},
             reads |-> {}, ok |-> TRUE]
      r1 == diag_band(text, pattern, i, start_j, end_j, f.prev, r0)
      r2 == diag_fill(1, start_j, diag_sentinel(max_distance), r1)
      r3 == diag_fill(end_j + 1, m + 1, diag_sentinel(max_distance), r2)
      g == [f EXCEPT !.curr = r3.curr, !.touched = r3.touched,
                     !.reads = r3.reads,
                     !.start_j = start_j, !.end_j = end_j]
  IN IF ~r3.ok THEN [g EXCEPT !.pc = "raise", !.exc = "IndexError"]
     ELSE diag_for([g EXCEPT !.matches = IF i >= m /\ r3.curr[m] <= max_distance
                                         THEN Append(@, i - m) ELSE @,
                             !.prev = r3.curr,
                             !.i = i + 1])

\* a whole call of kmp_search: the steps up to the return
RECURSIVE kmp_run(_, _, _)
kmp_run(text, pattern, f) ==
  IF f.pc # "loop" THEN f
  ELSE kmp_run(text, pattern, kmp_search_step(text, pattern, f))

kmp_search(text, pattern) ==
  kmp_run(text, pattern, kmp_search_enter(text, pattern)).ret

\* a whole call of boyer_moore_search
RECURSIVE bm_run(_, _, _)
bm_run(text, pattern, f) ==
  IF f.pc # "loop" THEN f
  ELSE bm_run(text, pattern, boyer_moore_search_step(text, pattern, f))

boyer_moore_search(text, pattern) ==
  bm_run(text, pattern, boyer_moore_search_enter(text, pattern)).ret

\* a whole call of levenshtein_search: the steps up to the return
RECURSIVE lev_run(_, _, _, _)
lev_run(text, pattern, max_distance, f) ==
  IF f.pc # "loop" THEN f
  ELSE lev_run(text, pattern, max_distance,
               levenshtein_search_step(text, pattern, max_distance, f))

levenshtein_search(text, pattern, max_distance) ==
  lev_run(text, pattern, max_distance,
          levenshtein_search_enter(text, pattern, max_distance)).ret

\* a whole call of levenshtein_search_optimized
RECURSIVE opt_run(_, _, _, _)
opt_run(text, pattern, max_distance, f) ==
  IF f.pc # "loop" THEN f
  ELSE opt_run(text, pattern, max_distance,
               levenshtein_search_optimized_step(text, pattern, max_distance, f))

levenshtein_search_optimized(text, pattern, max_distance) ==
  opt_run(text, pattern, max_distance,
          levenshtein_search_optimized_enter(text, pattern, max_distance)).ret

\* ---------------------------------------------------------------------
\* native.py
\* ---------------------------------------------------------------------
\* text.find(pattern, start): the lowest index >= start at which the
\* pattern occurs (the empty pattern occurs at every index up to len(text)),
\* or -1
str_find(text, pattern, start) ==
  LET found == {i \in start..(len(text) - len(pattern)) :
                  \A k \in 0..(len(pattern) - 1) : text[i + k] = pattern[k]}
  IN IF found = {} THEN 0 - 1
     ELSE CHOOSE i \in found : \A l \in found : i <= l

native_search_enter(text, pattern) ==
  [pc |-> "loop", ret |-> None, matches |-> <<>>, start |-> 0]

\* one iteration of `while True`
native_search_step(text, pattern, f) ==
  LET idx == str_find(text, pattern, f.start)
  IN IF idx = 0 - 1 THEN returned(f, f.matches)
     ELSE [f EXCEPT !.matches = Append(@, idx), !.start = idx + 1]

RECURSIVE native_run(_, _, _)
native_run(text, pattern, f) ==
  IF f.pc # "loop" THEN f
  ELSE native_run(text, pattern, native_search_step(text, pattern, f))

native_search(text, pattern) ==
  native_run(text, pattern, native_search_enter(text, pattern)).ret

\* re.escape(pattern): the expression that matches the pattern literally,
\* one literal atom per symbol
re_escape(pattern) == [i \in DOMAIN pattern |-> [literal |-> pattern[i]]]

\* the expression matches the text at index i
re_match_at(expression, text, i) ==
  /\ i + len(expression) <= len(text)
  /\ \A k \in 0..(len(expression) - 1) : text[i + k] = expression[k].literal

\* the next match of re.finditer: the leftmost one that starts at pos or
\* later, or -1
re_next(expression, text, pos) ==
  LET found == {i \in pos..len(text) : re_match_at(expression, text, i)}
  IN IF found = {} THEN 0 - 1
     ELSE CHOOSE i \in found : \A l \in found : i <= l

\* where re.finditer resumes after a match at i: at its end, one further
\* on when the match is empty
re_resume(expression, i) ==
  IF len(expression) = 0 THEN i + 1 ELSE i + len(expression)

regex_search_enter(text, pattern) ==
  [pc |-> "loop", ret |-> None, escaped_pattern |-> re_escape(pattern),
   matches |-> <<>>, pos |-> 0]

\* one turn of the comprehension over re.finditer(escaped_pattern, text)
regex_search_step(text, pattern, f) ==
  LET i == re_next(f.escaped_pattern, text, f.pos)
  IN IF i = 0 - 1 THEN returned(f, f.matches)
     ELSE [f EXCEPT !.matches = Append(@, i),
                    !.pos = re_resume(f.escaped_pattern, i)]

\* ---------------------------------------------------------------------
\* data_generator.py
\* ---------------------------------------------------------------------
\* The process-wide generator of module random, reduced to RngStates
\* states: random.seed(a) puts it in a state fixed by a, and every draw
\* returns a value fixed by the state and moves to the next state.
RngStates == 5
rng_seed(a) == a % RngStates
rng_next(state) == (state + 1) % RngStates
\* the draw below k in this state
rng_below(state, k) == state % k
\* random.randint(a, b) and random.choice(seq) in this state
rng_randint(state, a, b) == a + rng_below(state, b - a + 1)
rng_choice(state, seq) == seq[rng_below(state, len(seq))]

\* `if seed: random.seed(seed)` for an integer seed: the state after it
seed_if_given(seed, state) == IF seed # 0 THEN rng_seed(seed) ELSE state

\* for _ in range(count): a random start index and its slice
RECURSIVE gp_loop(_, _, _, _, _)
gp_loop(text, length, count, patterns, state) ==
  IF ~(count > 0) THEN [value |-> patterns, exc |-> None, state |-> state]
  ELSE LET start_idx == rng_randint(state, 0, len(text) - length)
           p == slice(text, start_idx, start_idx + length)
       IN gp_loop(text, length, count - 1, Append(patterns, p),
                  rng_next(state))

\* the outcome of a call and the generator state it leaves
generate_patterns_from_text(text, length, count, seed, state) ==
  LET seeded == seed_if_given(seed, state)
  IN IF length > len(text)
     THEN [value |-> <<>>, exc |-> "ValueError", state |-> seeded]
     ELSE gp_loop(text, length, count, <<>>, seeded)

bases == [i \in 0..3 |-> <<"A", "T", "C", "G">>[i + 1]]

\* list.insert(idx, v) and list.pop(idx)
list_insert(l, idx, v) ==
  [x \in 0..len(l) |-> IF x < idx THEN l[x] ELSE IF x = idx THEN v ELSE l[x - 1]]
list_pop(l, idx) ==
  [x \in 0..(len(l) - 2) |-> IF x < idx THEN l[x] ELSE l[x + 1]]
\* [b for b in bases if b != current_base]
other_bases(current_base) ==
  LET keep == {i \in 0..3 : bases[i] # current_base}
      nth(x) == CHOOSE i \in keep : Cardinality({l \in keep : l < i}) = x
  IN [x \in 0..(Cardinality(keep) - 1) |-> bases[nth(x)]]

\* one edit operation op on the list, drawing from the state st
gm_edit(pattern_list, op, st) ==
  IF op = "sub" /\ len(pattern_list) > 0
  THEN LET idx == rng_randint(st, 0, len(pattern_list) - 1)
           choices == other_bases(pattern_list[idx])
       IN [list |-> [pattern_list EXCEPT
                       ![idx] = rng_choice(rng_next(st), choices)],
           state |-> rng_next(rng_next(st))]
  ELSE IF op = "ins"
  THEN LET idx == rng_randint(st, 0, len(pattern_list))
       IN [list |-> list_insert(pattern_list, idx,
                                rng_choice(rng_next(st), bases)),
           state |-> rng_next(rng_next(st))]
  ELSE IF op = "del" /\ len(pattern_list) > 0
  THEN LET idx == rng_randint(st, 0, len(pattern_list) - 1)
       IN [list |-> list_pop(pattern_list, idx), state |-> rng_next(st)]
  ELSE [list |-> pattern_list, state |-> st]

\* for _ in range(k): choose the operation, then edit
RECURSIVE gm_loop(_, _, _, _)
gm_loop(pattern_list, k, mutation_type, state) ==
  IF ~(k > 0) THEN [value |-> pattern_list, exc |-> None, state |-> state]
  ELSE LET drawn == mutation_type # "sub"
           op == IF drawn
                 THEN rng_choice(state,
                                 [i \in 0..2 |-> <<"sub", "ins", "del">>[i + 1]])
                 ELSE "sub"
           e == gm_edit(pattern_list, op,
                        IF drawn THEN rng_next(state) ELSE state)
       IN gm_loop(e.list, k - 1, mutation_type, e.state)

generate_mutated_pattern(original_pattern, k, mutation_type, seed, state) ==
  gm_loop(original_pattern, k, mutation_type, seed_if_given(seed, state))

\* ---------------------------------------------------------------------
\* The calls.  A caller picks a text, a pattern and a threshold, then calls
\* one function, which runs to its return or to the exception it raises.
\* ---------------------------------------------------------------------
\* random_state is the state of the process-wide generator of module random
VARIABLES text, pattern, max_distance, fn, frame, random_state

vars == <<text, pattern, max_distance, fn, frame, random_state>>
args == <<text, pattern, max_distance>>

Init ==
  /\ text \in Strings(MaxN)
  /\ pattern \in Strings(MaxM)
  /\ max_distance \in Distances
  /\ fn = None
  /\ frame = [pc |-> "idle", ret |-> None]
  /\ random_state = 0

Call(name, f) ==
  /\ fn = None
  /\ fn' = name
  /\ frame' = f
  /\ UNCHANGED <<args, random_state>>

Step(name, f) ==
  /\ fn = name
  /\ frame.pc = "loop"
  /\ frame' = f
  /\ UNCHANGED <<args, fn, random_state>>

CallKmp == Call("kmp_search", kmp_search_enter(text, pattern))
StepKmp == Step("kmp_search", kmp_search_step(text, pattern, frame))
CallCountKmp ==
  Call("count_comparisons_kmp", count_comparisons_kmp_enter(text, pattern))
StepCountKmp ==
  Step("count_comparisons_kmp",
       count_comparisons_kmp_step(text, pattern, frame))
CallBoyerMoore ==
  Call("boyer_moore_search", boyer_moore_search_enter(text, pattern))
StepBoyerMoore ==
  Step("boyer_moore_search", boyer_moore_search_step(text, pattern, frame))
CallCountBoyerMoore ==
  Call("count_comparisons_boyer_moore",
       count_comparisons_boyer_moore_enter(text, pattern))
StepCountBoyerMoore ==
  Step("count_comparisons_boyer_moore",
       count_comparisons_boyer_moore_step(text, pattern, frame))
CallLev ==
  Call("levenshtein_search",
       levenshtein_search_enter(text, pattern, max_distance))
StepLev ==
  Step("levenshtein_search",
       levenshtein_search_step(text, pattern, max_distance, frame))
CallLevOptimized ==
  Call("levenshtein_search_optimized",
       levenshtein_search_optimized_enter(text, pattern, max_distance))
StepLevOptimized ==
  Step("levenshtein_search_optimized",
       levenshtein_search_optimized_step(text, pattern, max_distance, frame))
CallLevDiagonal ==
  Call("levenshtein_search_diagonal",
       levenshtein_search_diagonal_enter(text, pattern, max_distance))
StepLevDiagonal ==
  Step("levenshtein_search_diagonal",
       levenshtein_search_diagonal_step(text, pattern, max_distance, frame))
CallCountLev ==
  Call("count_comparisons_levenshtein",
       count_comparisons_levenshtein_enter(text, pattern, max_distance))
StepCountLev ==
  Step("count_comparisons_levenshtein",
       count_comparisons_levenshtein_step(text, pattern, max_distance, frame))

Next ==
  \/ CallKmp
  \/ StepKmp
  \/ CallCountKmp
  \/ StepCountKmp
  \/ CallBoyerMoore
  \/ StepBoyerMoore
  \/ CallCountBoyerMoore
  \/ StepCountBoyerMoore
  \/ CallLev
  \/ StepLev
  \/ CallLevOptimized
  \/ StepLevOptimized
  \/ CallLevDiagonal
  \/ StepLevDiagonal
  \/ CallCountLev
  \/ StepCountLev

Spec == Init /\ [][Next]_vars

\* levenshtein_distance as an operation of its own, on two strings
MaxS == 3

InitDistance ==
  /\ text \in Strings(MaxS)
  /\ pattern \in Strings(MaxS)
  /\ max_distance = 0
  /\ fn = None
  /\ frame = [pc |-> "idle", ret |-> None]
  /\ random_state = 0

CallLevDistance ==
  Call("levenshtein_distance",
       [pc |-> "done", ret |-> levenshtein_distance(text, pattern)])

NextDistance == CallLevDistance

SpecDistance == InitDistance /\ [][NextDistance]_vars

\* ---------------------------------------------------------------------
\* Properties
\* ---------------------------------------------------------------------
text_len == len(text)
pattern_len == len(pattern)
Exact == {"boyer_moore_search", "kmp_search"}
ExactCounting == {"count_comparisons_boyer_moore", "count_comparisons_kmp"}
Approximate == {"levenshtein_search", "levenshtein_search_optimized",
                "levenshtein_search_diagonal"}
Terminal == frame.pc \in {"done", "raise"}

\* the offsets at which the pattern occurs in the text
Occurrences(t, p) ==
  {s \in 0..(len(t) - len(p)) : \A k \in 0..(len(p) - 1) : t[s + k] = p[k]}

\* the ascending list of a finite set of integers
RECURSIVE Ascending(_)
Ascending(S) ==
  IF S = {} THEN <<>>
  ELSE LET lo == CHOOSE x \in S : \A y \in S : x <= y
       IN <<lo>> \o Ascending(S \ {lo})

\* the window of the text at offset s
Window(s) == slice(text, s, s + pattern_len)

\* the list of matches a call has built so far
MatchList ==
  IF fn \in {"kmp_search", "count_comparisons_kmp"} THEN frame.occurrences
  ELSE frame.matches

\* the list of matches a call has returned
ReturnedList ==
  IF fn \in ExactCounting \cup {"count_comparisons_levenshtein"}
  THEN frame.ret[1] ELSE frame.ret

StrictlyAscending(q) == \A k \in 1..(Len(q) - 1) : q[k] < q[k + 1]
InWindowRange(q) == \A k \in 1..Len(q) : 0 <= q[k] /\ q[k] <= text_len - pattern_len

\* C1: for a non-empty pattern no longer than the text, boyer_moore_search
\* and kmp_search return the ascending list of all offsets at which the
\* pattern occurs, overlapping occurrences and the one at the end included.
C1_ExactEqualsBruteForce ==
  (fn \in Exact /\ frame.pc = "done" /\ pattern_len >= 1
     /\ pattern_len <= text_len)
  => frame.ret = Ascending(Occurrences(text, pattern))

\* boyer_moore_search has returned two overlapping occurrences, the last of
\* them at the very end of the text
C1_Witness ==
  /\ fn = "boyer_moore_search"
  /\ frame.pc = "done"
  /\ pattern_len >= 2
  /\ Len(frame.ret) >= 2
  /\ frame.ret[Len(frame.ret)] = text_len - pattern_len
  /\ frame.ret[Len(frame.ret)] - frame.ret[Len(frame.ret) - 1] < pattern_len

\* C2: for every threshold >= 0 the rolling-row search returns the list of
\* the full-table search, and the cell prev[m] it tests after each window
\* is the full-table distance of that window.
C2_OptimizedEqualsNaive ==
  (fn = "levenshtein_search_optimized" /\ max_distance >= 0)
  => /\ frame.pc = "done"
        => frame.ret = levenshtein_search(text, pattern, max_distance)
     /\ (frame.pc \in {"loop", "done"} /\ frame.start >= 1)
        => frame.prev[pattern_len]
             = levenshtein_distance(Window(frame.start - 1), pattern)

\* the rolling-row search has returned a window that is not an exact
\* occurrence and has left another window out
C2_Witness ==
  /\ fn = "levenshtein_search_optimized"
  /\ frame.pc = "done"
  /\ max_distance >= 1
  /\ pattern_len >= 2
  /\ \E k \in 1..Len(frame.ret) :
       levenshtein_distance(Window(frame.ret[k]), pattern) >= 1
  /\ Len(frame.ret) < text_len - pattern_len + 1

\* C3: for a threshold of 0 or 1 that is below the length of a non-empty
\* pattern no longer than the text, the banded search returns the list of
\* the full-table search and of the rolling-row search.
C3_BandedEqualsOthers ==
  (fn = "levenshtein_search_diagonal" /\ Terminal
     /\ max_distance \in {0, 1} /\ max_distance < pattern_len
     /\ pattern_len <= text_len)
  => /\ frame.pc = "done"
     /\ frame.ret = levenshtein_search(text, pattern, max_distance)
     /\ frame.ret = levenshtein_search_optimized(text, pattern, max_distance)

\* C4: for every threshold >= 0 the banded search raises no index error:
\* every DP-row index it uses in a text row lies in 0..m.
C4_BandedIndexSafe ==
  (fn = "levenshtein_search_diagonal" /\ max_distance >= 0)
  => /\ frame.pc # "raise"
     /\ frame.touched \subseteq 0..pattern_len

\* C5: for the empty pattern the exact searches return the empty list (the
\* counting ones with count 0) and every approximate search returns the
\* offsets 0..n, whatever the threshold (the counting one with count 0).
C5_EmptyPattern ==
  (fn # None /\ pattern_len = 0)
  => /\ frame.pc = "done"
     /\ fn \in Exact => frame.ret = <<>>
     /\ fn \in ExactCounting => frame.ret = << <<>>, 0 >>
     /\ fn \in Approximate
          => /\ Len(frame.ret) = text_len + 1
             /\ \A k \in 1..(text_len + 1) : frame.ret[k] = k - 1
     /\ fn = "count_comparisons_levenshtein"
          => /\ Len(frame.ret[1]) = text_len + 1
             /\ \A k \in 1..(text_len + 1) : frame.ret[1][k] = k - 1
             /\ frame.ret[2] = 0

\* the banded search was called with the empty pattern on a text of two or
\* more symbols
C5_Witness ==
  /\ fn = "levenshtein_search_diagonal"
  /\ pattern_len = 0
  /\ text_len >= 2
  /\ frame.pc = "done"
  /\ Len(frame.ret) = text_len + 1

\* C6: a non-empty pattern longer than the text makes every search return
\* the empty list without an error, whatever the threshold, and the
\* counting searches return it with count 0.
C6_PatternLongerThanText ==
  (fn # None /\ pattern_len > text_len)
  => /\ frame.pc = "done"
     /\ fn \in Exact \cup Approximate => frame.ret = <<>>
     /\ fn \in ExactCounting \cup {"count_comparisons_levenshtein"}
          => frame.ret = << <<>>, 0 >>

\* a counting search was called with a pattern longer than a non-empty text
C6_Witness ==
  /\ fn = "count_comparisons_kmp"
  /\ pattern_len > text_len
  /\ text_len >= 1
  /\ frame.pc = "done"

\* C7: a negative threshold is rejected by every approximate search with an
\* error of the InvalidArgument kind before any list is built.
C7_NegativeDistanceRejected ==
  (fn \in Approximate \cup {"count_comparisons_levenshtein"}
     /\ max_distance < 0)
  => (frame.pc = "raise" /\ frame.exc = "InvalidArgument")

\* C8: levenshtein_distance is a metric: zero exactly on equal strings,
\* symmetric, and within the triangle inequality through any third string.
C8_DistanceIsMetric ==
  (fn = "levenshtein_distance" /\ frame.pc = "done")
  => /\ (frame.ret = 0) <=> (text = pattern)
     /\ frame.ret = levenshtein_distance(pattern, text)
     /\ \A c \in Strings(MaxS) :
          levenshtein_distance(text, c)
            <= frame.ret + levenshtein_distance(pattern, c)

\* the distance of two different non-empty strings of different lengths
C8_Witness ==
  /\ fn = "levenshtein_distance"
  /\ frame.pc = "done"
  /\ text_len >= 2
  /\ pattern_len >= 1
  /\ text_len # pattern_len
  /\ frame.ret >= 2

\* C9: at every point of every search the list of matches is strictly
\* ascending and each of its offsets lies in 0..n-m; so is the list returned.
C9_MatchListAscendingInRange ==
  (fn # None /\ fn # "levenshtein_distance")
  => /\ StrictlyAscending(MatchList) /\ InWindowRange(MatchList)
     /\ frame.pc = "done"
          => StrictlyAscending(ReturnedList) /\ InWindowRange(ReturnedList)

\* kmp_search is in the middle of its scan with two occurrences recorded
C9_Witness ==
  /\ fn = "kmp_search"
  /\ frame.pc = "loop"
  /\ Len(frame.occurrences) >= 2

\* C10: for a non-empty pattern no longer than the text the count of
\* count_comparisons_kmp never exceeds 2n.
C10_KmpComparisonsAtMost2n ==
  (fn = "count_comparisons_kmp" /\ pattern_len >= 1
     /\ pattern_len <= text_len)
  => /\ frame.comparisons <= 2 * text_len
     /\ frame.pc = "done" => frame.ret[2] <= 2 * text_len

\* count_comparisons_kmp has returned after falling back on a mismatch:
\* more comparisons than text symbols
C10_Witness ==
  /\ fn = "count_comparisons_kmp"
  /\ frame.pc = "done"
  /\ pattern_len >= 2
  /\ frame.ret[2] > text_len

BoyerMoore == {"boyer_moore_search", "count_comparisons_boyer_moore"}

\* C11: every iteration of the scan loop of boyer_moore_search advances the
\* shift by at least 1: by max(j - bad_char.get(text[s+j], -1),
\* good_suffix[j]) after a mismatch at j, by good_suffix[0] or 1 after a
\* full match; so the shift strictly increases.
C11_ShiftAdvances ==
  [][(fn \in BoyerMoore /\ frame.pc = "loop")
       => /\ frame'.advance >= 1
          /\ frame'.shift_amount = frame.shift_amount + frame'.advance
          /\ frame'.shift_amount > frame.shift_amount
          /\ frame'.j >= 0
               => frame'.advance
                    = max2(frame'.j - dict_get(frame.bad_char,
                                               text[frame.shift_amount + frame'.j],
                                               0 - 1),
                           frame.good_suffix[frame'.j])
          /\ frame'.j < 0
               => frame'.advance
                    = (IF frame.shift_amount + frame.m < frame.n
                       THEN frame.good_suffix[0] ELSE 1)]_vars

\* boyer_moore_search has advanced after a mismatch whose bad-character
\* shift was not positive: the text symbol occurs in the pattern to the
\* right of the mismatch
C11_Witness ==
  /\ fn = "boyer_moore_search"
  /\ frame.advance >= 1
  /\ frame.j >= 0
  /\ frame.j - dict_get(frame.bad_char,
                        text[frame.shift_amount - frame.advance + frame.j],
                        0 - 1) <= 0

\* the longest proper prefix of p[0..i] that is also a suffix of it
LongestBorder(p, i) ==
  LET borders == {k \in 0..i : \A x \in 0..(k - 1) : p[x] = p[i - k + 1 + x]}
  IN CHOOSE k \in borders : \A l \in borders : l <= k

\* C12: for a non-empty pattern, entry i of compute_lps_table is the length
\* of the longest proper prefix of pattern[0..i] that is also its suffix;
\* the table has m entries, entry 0 is 0 and entry i is at most i.
C12_LpsIsLongestBorder ==
  (fn \in {"kmp_search", "count_comparisons_kmp"} /\ pattern_len >= 1
     /\ pattern_len <= text_len)
  => /\ DOMAIN frame.lps = 0..(pattern_len - 1)
     /\ frame.lps[0] = 0
     /\ \A i \in 0..(pattern_len - 1) :
          frame.lps[i] <= i /\ frame.lps[i] = LongestBorder(pattern, i)

\* kmp_search holds the table of a pattern with a border of two symbols
C12_Witness ==
  /\ fn = "kmp_search"
  /\ pattern_len >= 3
  /\ pattern_len <= text_len
  /\ frame.lps[pattern_len - 1] >= 2

\* C13: each counting search returns the list of its plain counterpart
\* together with a count that is a natural number.
C13_CountingReturnsSameMatches ==
  (frame.pc = "done")
  => /\ fn = "count_comparisons_kmp"
          => /\ frame.ret[1] = kmp_search(text, pattern)
             /\ frame.ret[2] \in Nat
     /\ fn = "count_comparisons_boyer_moore"
          => /\ frame.ret[1] = boyer_moore_search(text, pattern)
             /\ frame.ret[2] \in Nat
     /\ fn = "count_comparisons_levenshtein"
          => /\ frame.ret[1]
                  = levenshtein_search_optimized(text, pattern, max_distance)
             /\ frame.ret[2] \in Nat

\* count_comparisons_kmp has returned two overlapping occurrences and a
\* positive count
C13_Witness ==
  /\ fn = "count_comparisons_kmp"
  /\ frame.pc = "done"
  /\ pattern_len >= 2
  /\ Len(frame.ret[1]) >= 2
  /\ frame.ret[1][2] - frame.ret[1][1] < pattern_len
  /\ frame.ret[2] > 0

\* the text row whose band levenshtein_search_diagonal computed last
DiagRow == IF frame.pc = "raise" THEN frame.i ELSE frame.i - 1

\* column k lies outside the band of text row i
OutsideBand(i, k) ==
  k < max2(1, i - max_distance) \/ k > min2(pattern_len, i + max_distance)

\* a read of a cell in columns 1..m that lies outside its row's band
OutOfCorridor(rd) ==
  /\ rd.index >= 1
  /\ IF rd.row = "curr" THEN OutsideBand(DiagRow, rd.index)
     ELSE OutsideBand(DiagRow - 1, rd.index)

\* C14: whenever the banded search computes a band cell, every cell outside
\* the corridor that it reads holds a value greater than the threshold.
C14_OutOfCorridorReadsAreSentinels ==
  (fn = "levenshtein_search_diagonal" /\ max_distance >= 0)
  => \A rd \in frame.reads : OutOfCorridor(rd) => rd.value > max_distance

\* shifting the pattern by k keeps the matched suffix p[j+1..m-1] in
\* agreement with itself and brings another symbol under the mismatch at j:
\* (a) for k <= j the suffix recurs k to the left after a symbol other than
\* p[j]; (b) for k >= j + 1 the prefix of length m - k is a suffix of it
ShiftAdmissible(p, j, k) ==
  IF k <= j
  THEN /\ \A x \in (j + 1)..(len(p) - 1) : p[x - k] = p[x]
       /\ p[j - k] # p[j]
  ELSE \A x \in k..(len(p) - 1) : p[x - k] = p[x]

\* the smallest admissible shift for a mismatch at j (k = m always is one)
GoodSuffixShift(p, j) ==
  CHOOSE k \in 1..len(p) :
    /\ ShiftAdmissible(p, j, k)
    /\ \A l \in 1..(k - 1) : ~ShiftAdmissible(p, j, l)

\* the smallest period of p
SmallestPeriod(p) ==
  CHOOSE k \in 1..len(p) :
    /\ \A x \in k..(len(p) - 1) : p[x - k] = p[x]
    /\ \A l \in 1..(k - 1) : \E x \in l..(len(p) - 1) : p[x - l] # p[x]

HoldsTables ==
  fn \in BoyerMoore /\ pattern_len >= 1 /\ pattern_len <= text_len

\* C15: for a non-empty pattern, entry j of good_suffix_table is the
\* good-suffix shift of a mismatch at j: the smallest k >= 1 admissible by
\* case (a) or case (b).
C15_GoodSuffixIsSmallestShift ==
  HoldsTables
  => \A j \in 0..(pattern_len - 1) :
       frame.good_suffix[j] = GoodSuffixShift(pattern, j)

\* C20: for a non-empty pattern every entry of good_suffix_table lies in
\* 1..m and is at most the smallest shift at which an occurrence can begin
\* after a mismatch at j below a matched suffix; entry 0 is at most the
\* smallest period; and the scan of boyer_moore_search leaves no occurrence
\* behind its shift unrecorded.
C20_GoodSuffixNeverSkips ==
  HoldsTables
  => /\ \A j \in 0..(pattern_len - 1) :
          /\ 1 <= frame.good_suffix[j]
          /\ frame.good_suffix[j] <= pattern_len
          /\ frame.good_suffix[j] <= GoodSuffixShift(pattern, j)
     /\ frame.good_suffix[0] <= SmallestPeriod(pattern)
     /\ \A o \in Occurrences(text, pattern) :
          o < frame.shift_amount
            => \E k \in 1..Len(frame.matches) : frame.matches[k] = o

\* boyer_moore_search has advanced by a good-suffix entry of 2 or more that
\* exceeded the bad-character shift, with an occurrence still ahead
C20_Witness ==
  /\ fn = "boyer_moore_search"
  /\ pattern_len >= 2
  /\ pattern_len <= text_len
  /\ frame.j >= 0
  /\ frame.advance >= 2
  /\ frame.advance = frame.good_suffix[frame.j]
  /\ frame.advance
       > frame.j - dict_get(frame.bad_char,
                            text[frame.shift_amount - frame.advance + frame.j],
                            0 - 1)
  /\ \E o \in Occurrences(text, pattern) : o >= frame.shift_amount

\* the offsets whose window is within distance d of the pattern
WithinDistance(d) ==
  {s \in 0..(text_len - pattern_len) :
     levenshtein_distance(Window(s), pattern) <= d}

\* C16: for a non-empty pattern, levenshtein_search with threshold 0 returns
\* the list of kmp_search and of boyer_moore_search; with any threshold d
\* it returns exactly the offsets in 0..n-m whose window is within distance
\* d of the pattern, all of which the threshold d + 1 returns too.
C16_ApproximateGeneralisesExact ==
  (fn = "levenshtein_search" /\ frame.pc = "done" /\ pattern_len >= 1)
  => /\ max_distance = 0
          => /\ frame.ret = kmp_search(text, pattern)
             /\ frame.ret = boyer_moore_search(text, pattern)
     /\ frame.ret = Ascending(WithinDistance(max_distance))
     /\ \A k \in 1..Len(frame.ret) :
          \E l \in 1..Len(levenshtein_search(text, pattern, max_distance + 1)) :
            levenshtein_search(text, pattern, max_distance + 1)[l]
              = frame.ret[k]

\* levenshtein_search with threshold 0 has returned an occurrence, the last
\* window included, and threshold 1 would return more
C16_Witness ==
  /\ fn = "levenshtein_search"
  /\ frame.pc = "done"
  /\ max_distance = 0
  /\ pattern_len >= 2
  /\ Len(frame.ret) >= 1
  /\ frame.ret[Len(frame.ret)] = text_len - pattern_len
  /\ Len(levenshtein_search(text, pattern, 1)) > Len(frame.ret)

\* the symbols of the pattern
Symbols(p) == {p[i] : i \in DOMAIN p}

\* the text symbol under the mismatch of the alignment just finished
MismatchSymbol ==
  text[frame.shift_amount - frame.advance + frame.j]

\* C17: bad_character_table maps exactly the symbols of the pattern, each to
\* the largest index at which it occurs; a symbol absent from the pattern
\* resolves to -1 in the scan, so that a mismatch at j on such a symbol
\* advances by the bad-character shift j + 1 (or a larger good-suffix
\* entry).
C17_BadCharacterIsRightmost ==
  HoldsTables
  => /\ DOMAIN frame.bad_char = Symbols(pattern)
     /\ \A c \in Symbols(pattern) :
          /\ pattern[frame.bad_char[c]] = c
          /\ \A i \in DOMAIN pattern : pattern[i] = c => i <= frame.bad_char[c]
     /\ \A c \in Alphabet \ Symbols(pattern) :
          dict_get(frame.bad_char, c, 0 - 1) = 0 - 1
     /\ (frame.advance >= 1 /\ frame.j >= 0
           /\ MismatchSymbol \notin Symbols(pattern))
          => /\ frame.advance >= frame.j + 1
             /\ frame.advance
                  = max2(frame.j + 1, frame.good_suffix[frame.j])

\* boyer_moore_search, on a pattern that repeats a symbol, has advanced by
\* j + 1 >= 2 after a mismatch on a symbol absent from the pattern
C17_Witness ==
  /\ fn = "boyer_moore_search"
  /\ pattern_len >= 2
  /\ pattern_len <= text_len
  /\ Cardinality(Symbols(pattern)) < pattern_len
  /\ frame.j >= 1
  /\ frame.advance = frame.j + 1
  /\ MismatchSymbol \notin Symbols(pattern)

\* ---------------------------------------------------------------------
\* The baseline searches of native.py, called like the searches above
\* ---------------------------------------------------------------------
CallNative == Call("native_search", native_search_enter(text, pattern))
StepNative == Step("native_search", native_search_step(text, pattern, frame))
CallRegex == Call("regex_search", regex_search_enter(text, pattern))
StepRegex == Step("regex_search", regex_search_step(text, pattern, frame))

NextBaseline ==
  \/ CallNative
  \/ StepNative
  \/ CallRegex
  \/ StepRegex

SpecBaseline == Init /\ [][NextBaseline]_vars

\* C18: for a non-empty pattern regex_search returns the offsets of
\* native_search, that is every offset at which the pattern occurs,
\* occurrences that overlap an earlier one included.
C18_RegexFindsAllOccurrences ==
  (fn = "regex_search" /\ frame.pc = "done" /\ pattern_len >= 1)
  => /\ frame.ret = native_search(text, pattern)
     /\ frame.ret = Ascending(Occurrences(text, pattern))

\* ---------------------------------------------------------------------
\* The generators of data_generator.py: a caller calls one of them twice
\* with the same arguments, and other users of module random may draw
\* from the process-wide generator in between.
\* ---------------------------------------------------------------------
MaxG == 2
MaxCount == 2
MaxK == 2
MaxSeed == 1

outcome(r) == [value |-> r.value, exc |-> r.exc]

InitGenerator ==
  /\ text \in Strings(MaxG)
  /\ pattern = <<>>
  /\ max_distance = 0
  /\ fn = None
  /\ frame = [pc |-> "idle", ret |-> None]
  /\ random_state \in 0..(RngStates - 1)

CallGeneratePatterns ==
  \E length \in 0..MaxG, count \in 0..MaxCount, seed \in 0..MaxSeed :
    LET r == generate_patterns_from_text(text, length, count, seed,
                                         random_state)
    IN /\ fn = None
       /\ fn' = "generate_patterns_from_text"
       /\ frame' = [pc |-> "called", ret |-> None,
                    length |-> length, count |-> count, seed |-> seed,
                    first |-> outcome(r), second |-> outcome(r)]
       /\ random_state' = r.state
       /\ UNCHANGED args

CallGeneratePatternsAgain ==
  LET r == generate_patterns_from_text(text, frame.length, frame.count,
                                       frame.seed, random_state)
  IN /\ fn = "generate_patterns_from_text"
     /\ frame.pc = "called"
     /\ frame' = [frame EXCEPT !.pc = "done", !.second = outcome(r)]
     /\ random_state' = r.state
     /\ UNCHANGED <<args, fn>>

CallGenerateMutated ==
  \E k \in 0..MaxK, mutation_type \in {"sub", "mix"}, seed \in 0..MaxSeed :
    LET r == generate_mutated_pattern(text, k, mutation_type, seed,
                                      random_state)
    IN /\ fn = None
       /\ fn' = "generate_mutated_pattern"
       /\ frame' = [pc |-> "called", ret |-> None,
                    k |-> k, mutation_type |-> mutation_type, seed |-> seed,
                    first |-> outcome(r), second |-> outcome(r)]
       /\ random_state' = r.state
       /\ UNCHANGED args

CallGenerateMutatedAgain ==
  LET r == generate_mutated_pattern(text, frame.k, frame.mutation_type,
                                    frame.seed, random_state)
  IN /\ fn = "generate_mutated_pattern"
     /\ frame.pc = "called"
     /\ frame' = [frame EXCEPT !.pc = "done", !.second = outcome(r)]
     /\ random_state' = r.state
     /\ UNCHANGED <<args, fn>>

\* between the two calls another user of module random draws or reseeds
OtherUse ==
  /\ frame.pc = "called"
  /\ \E st \in 0..(RngStates - 1) : st # random_state /\ random_state' = st
  /\ UNCHANGED <<args, fn, frame>>

NextGenerator ==
  \/ CallGeneratePatterns
  \/ CallGeneratePatternsAgain
  \/ CallGenerateMutated
  \/ CallGenerateMutatedAgain
  \/ OtherUse

SpecGenerator == InitGenerator /\ [][NextGenerator]_vars

\* C19: for every integer seed, 0 included, two calls of
\* generate_patterns_from_text, and two of generate_mutated_pattern, with
\* the same arguments return the same result, whatever state the
\* process-wide generator is in before each call.
C19_SeededGenerationReproducible ==
  (fn \in {"generate_patterns_from_text", "generate_mutated_pattern"}
     /\ frame.pc = "done")
  => frame.first = frame.second

====
